---- MODULE Spec2Model ----
(***************************************************************************)
(* Model of github.com/sheki/articles (package.go, cmd/main.go): a notes   *)
(* file is parsed into articles (parseFile, parseArticle, reverse) and the *)
(* site is written by Generate: generateIndex, generateArticlePages,       *)
(* generateTags.  Go strings are sequences of one-character strings, so    *)
(* that prefix tests, cut-set trimming, splitting, path cleaning and the   *)
(* byte length of every written page are those of the program.             *)
(***************************************************************************)
EXTENDS Integers, Sequences, FiniteSets, TLC

\* Longest notes file, in lines, that Init draws.
MaxLines == 4

\* Most records of a notes file that Init draws record by record.
MaxRecords == 2

----------------------------------------------------------------------------
(* strings, path, strconv                                                  *)

Chars(s) == {s[i] : i \in 1..Len(s)}

\* unicode.IsSpace, restricted to the ASCII white space used here
White == {" ", "\t", "\n", "\r"}

HasPrefix(s, prefix) ==
  Len(s) >= Len(prefix) /\ SubSeq(s, 1, Len(prefix)) = prefix

\* strings.TrimLeft: drops every leading character contained in cutset
RECURSIVE TrimLeft(_, _)
TrimLeft(s, cutset) ==
  IF s # <<>> /\ Head(s) \in Chars(cutset) THEN TrimLeft(Tail(s), cutset) ELSE s

RECURSIVE TrimLeftSpace(_)
TrimLeftSpace(s) ==
  IF s # <<>> /\ Head(s) \in White THEN TrimLeftSpace(Tail(s)) ELSE s

RECURSIVE TrimRightSpace(_)
TrimRightSpace(s) ==
  IF s # <<>> /\ s[Len(s)] \in White
  THEN TrimRightSpace(SubSeq(s, 1, Len(s) - 1)) ELSE s

TrimSpace(s) == TrimRightSpace(TrimLeftSpace(s))

\* strings.Split with a one-character separator
RECURSIVE Split(_, _)
Split(s, sep) ==
  LET at == {i \in 1..Len(s) : s[i] = sep} IN
  IF at = {} THEN <<s>>
  ELSE LET i == CHOOSE j \in at : \A k \in at : j <= k IN
       <<SubSeq(s, 1, i - 1)>> \o Split(SubSeq(s, i + 1, Len(s)), sep)

\* strings.Join
RECURSIVE Join(_, _)
Join(elems, sep) ==
  IF elems = <<>> THEN <<>>
  ELSE IF Len(elems) = 1 THEN elems[1]
  ELSE elems[1] \o sep \o Join(Tail(elems), sep)

Digit == <<"0", "1", "2", "3", "4", "5", "6", "7", "8", "9">>

IsDigit(c) == \E d \in 1..10 : Digit[d] = c

DigitVal(c) == (CHOOSE d \in 1..10 : Digit[d] = c) - 1

\* fmt.Sprintf("%d", n), n >= 0
RECURSIVE Itoa(_)
Itoa(n) == IF n < 10 THEN <<Digit[n + 1]>> ELSE Itoa(n \div 10) \o <<Digit[(n % 10) + 1]>>

\* path.Clean on the paths tagFile builds: runs of "/" collapse to one.  (The
\* "." and ".." elements Clean also rewrites need a "." inside a tag.)
RECURSIVE Clean(_)
Clean(p) ==
  IF Len(p) < 2 THEN p
  ELSE IF p[1] = "/" /\ p[2] = "/" THEN Clean(Tail(p))
  ELSE <<p[1]>> \o Clean(Tail(p))

\* path.Join(base, elem...), relative to base (base itself is taken clean)
PathJoin(elems) == Clean(Join(elems, <<"/">>))

\* directory part of a path below base; <<>> is base itself
RECURSIVE DirOf(_)
DirOf(p) ==
  IF p = <<>> THEN <<>>
  ELSE IF p[Len(p)] = "/" THEN SubSeq(p, 1, Len(p) - 1)
  ELSE DirOf(SubSeq(p, 1, Len(p) - 1))

----------------------------------------------------------------------------
(* time                                                                    *)

IsLeap(y) == y % 4 = 0 /\ (y % 100 # 0 \/ y % 400 = 0)

DaysIn(m, y) ==
  IF m = 2 THEN (IF IsLeap(y) THEN 29 ELSE 28)
  ELSE IF m \in {4, 6, 9, 11} THEN 30 ELSE 31

\* the zero time.Time: January 1, year 1
ZeroDate == [year |-> 1, month |-> 1, day |-> 1]

\* time.Parse("2006/01/02", s): four digits, "/", two digits, "/", two digits and
\* nothing else; month in 1..12, day in 1..DaysIn
TimeParse(s) ==
  LET shape == /\ Len(s) = 10
               /\ \A i \in {1, 2, 3, 4, 6, 7, 9, 10} : IsDigit(s[i])
               /\ s[5] = "/" /\ s[8] = "/"
      y == 1000 * DigitVal(s[1]) + 100 * DigitVal(s[2]) + 10 * DigitVal(s[3]) + DigitVal(s[4])
      m == 10 * DigitVal(s[6]) + DigitVal(s[7])
      d == 10 * DigitVal(s[9]) + DigitVal(s[10])
  IN IF shape /\ m \in 1..12 /\ d >= 1 /\ d <= DaysIn(m, y)
     THEN [ok |-> TRUE, date |-> [year |-> y, month |-> m, day |-> d]]
     ELSE [ok |-> FALSE, date |-> ZeroDate]

MonthAbbr ==
  << <<"J", "a", "n">>, <<"F", "e", "b">>, <<"M", "a", "r">>, <<"A", "p", "r">>,
     <<"M", "a", "y">>, <<"J", "u", "n">>, <<"J", "u", "l">>, <<"A", "u", "g">>,
     <<"S", "e", "p">>, <<"O", "c", "t">>, <<"N", "o", "v">>, <<"D", "e", "c">> >>

Pad4(n) ==
  LET s == Itoa(n) IN
  IF Len(s) >= 4 THEN s ELSE SubSeq(<<"0", "0", "0">>, 1, 4 - Len(s)) \o s

\* Time.Format("2 Jan 2006")
FormatDate(t) == Itoa(t.day) \o <<" ">> \o MonthAbbr[t.month] \o <<" ">> \o Pad4(t.year)

----------------------------------------------------------------------------
(* the notes file                                                          *)

HeadingPrefix == <<"#", " ">>

DateLit == <<"D", "a", "t", "e", ":">>

TagsLit == <<"T", "a", "g", "s", ":">>

\* "# A"
HeadingA == <<"#", " ", "A">>

\* "# Bb"
HeadingBb == <<"#", " ", "B", "b">>

\* "Date: 2015/03/02"
DateOk == <<"D", "a", "t", "e", ":", " ", "2", "0", "1", "5", "/", "0", "3", "/", "0", "2">>

\* "Date: 2015/02/30"
DateBad == <<"D", "a", "t", "e", ":", " ", "2", "0", "1", "5", "/", "0", "2", "/", "3", "0">>

\* "Tags: a,/a"
TagsSlash == <<"T", "a", "g", "s", ":", " ", "a", ",", "/", "a">>

\* "Tags:go,saga"
TagsTight == <<"T", "a", "g", "s", ":", "g", "o", ",", "s", "a", "g", "a">>

\* "Tags: a, b"
TagsAB == <<"T", "a", "g", "s", ":", " ", "a", ",", " ", "b">>

\* "x"
TextX == <<"x">>

\* the lines a notes file is drawn from
LinePool == {HeadingA, HeadingBb, DateOk, DateBad, TagsSlash, TagsTight, TextX}

\* the notes files drawn line by line: every sequence of at most MaxLines lines
\* of the pool
LineFiles == UNION {[1..n -> LinePool] : n \in 0..MaxLines}

\* the records a notes file is drawn from: a heading line and the lines after it
BodyPool ==
  {<<DateOk>>, <<DateOk, TagsSlash>>, <<DateOk, TagsAB, TextX>>, <<DateOk, TagsTight>>,
   <<DateBad, TagsAB>>}

RecordPool == {<<h>> \o body : h \in {HeadingA, HeadingBb}, body \in BodyPool}

\* the concatenation of a sequence of sequences
RECURSIVE Concat(_)
Concat(ss) == IF ss = <<>> THEN <<>> ELSE Head(ss) \o Concat(Tail(ss))

\* the notes files drawn record by record: at most MaxRecords records of the pool
RecordFiles == {Concat(rs) : rs \in UNION {[1..n -> RecordPool] : n \in 0..MaxRecords}}

NotesFiles == LineFiles \cup RecordFiles

----------------------------------------------------------------------------
(* markdown.New(HTML(true), Nofollow(true)).RenderToString, on the sources  *)
(* parseArticle builds: an ATX heading line, then paragraphs of text lines  *)
(* separated by blank lines                                                 *)

RECURSIVE RenderParagraphs(_, _)
RenderParagraphs(lines, open) ==
  LET close == IF open = <<>> THEN <<>>
               ELSE <<"<", "p", ">">> \o Join(open, <<"\n">>) \o <<"<", "/", "p", ">", "\n">>
  IN IF lines = <<>> THEN close
     ELSE IF TrimSpace(Head(lines)) = <<>>
          THEN close \o RenderParagraphs(Tail(lines), <<>>)
          ELSE RenderParagraphs(Tail(lines), Append(open, TrimSpace(Head(lines))))

RenderToString(src) ==
  LET lines == Split(src, "\n") IN
  <<"<", "h", "1", ">">> \o TrimSpace(SubSeq(lines[1], 3, Len(lines[1])))
    \o <<"<", "/", "h", "1", ">", "\n">> \o RenderParagraphs(Tail(lines), <<>>)

----------------------------------------------------------------------------
(* Article, parseArticle, parseFile, reverse                               *)

\* the zero value of type Article
ZeroArticle ==
  [Header |-> <<>>, Content |-> <<>>, Tags |-> <<>>, Date |-> ZeroDate, Index |-> 0]

\* the last line of lines with the prefix, "" when there is none
LastWith(lines, prefix) ==
  LET at == {i \in 1..Len(lines) : HasPrefix(lines[i], prefix)} IN
  IF at = {} THEN <<>> ELSE lines[CHOOSE i \in at : \A j \in at : j <= i]

IsMarkDownLine(line) == ~HasPrefix(line, DateLit) /\ ~HasPrefix(line, TagsLit)

\* the tags of a tags line (the line as found, "" when there was none)
ParseTags(tagsLine) ==
  LET pieces == Split(TrimLeft(tagsLine, TagsLit), ",") IN
  [i \in 1..Len(pieces) |-> TrimSpace(pieces[i])]

parseArticle(header, lines) ==
  LET h        == TrimSpace(TrimLeft(header, HeadingPrefix))
      markDown == <<header>> \o SelectSeq(lines, IsMarkDownLine)
      dateLine == TrimSpace(TrimLeft(LastWith(lines, DateLit), DateLit))
      t        == TimeParse(dateLine)
  IN IF ~t.ok THEN [a |-> ZeroArticle, err |-> TRUE]
     ELSE [a |-> [Header  |-> h,
                  Content |-> RenderToString(Join(markDown, <<"\n">>)),
                  Tags    |-> ParseTags(LastWith(lines, TagsLit)),
                  Date    |-> t.date,
                  Index   |-> 0],
           err |-> FALSE]

\* reverse: n starts as len(res) zero Articles and the reversed res is appended
reverse(res) ==
  [i \in 1..Len(res) |-> ZeroArticle] \o [i \in 1..Len(res) |-> res[Len(res) + 1 - i]]

\* index := 1
FirstIndex == 1

\* a slip in index++: the counter stays where it is
NextIndexStuck(index) == index

\* index++
NextIndex(index) == index + 1

\* the scanner loop of parseFile from line k on; st holds res, last, lines and
\* index, the (header, lines) pairs handed to parseArticle so far, and err
RECURSIVE Scan(_, _, _)
Scan(file, k, st) ==
  IF k > Len(file) THEN st
  ELSE LET text == file[k] IN
    IF HasPrefix(text, HeadingPrefix)
    THEN IF st.last # <<>>
         THEN LET r == parseArticle(st.last, st.lines)
                  called == Append(st.calls, [header |-> st.last, lines |-> st.lines])
              IN IF r.err
                 THEN [st EXCEPT !.calls = called, !.err = TRUE]
                 ELSE Scan(file, k + 1,
                        [res   |-> Append(st.res, [r.a EXCEPT !.Index = st.index]),
                         last  |-> text,
                         lines |-> <<>>,
                         index |-> NextIndex(st.index),
                         calls |-> called,
                         err   |-> FALSE])
         ELSE Scan(file, k + 1, [st EXCEPT !.last = text])
    ELSE Scan(file, k + 1, [st EXCEPT !.lines = Append(@, text)])

parseFile(file) ==
  LET st == Scan(file, 1, [res |-> <<>>, last |-> <<>>, lines |-> <<>>,
                           index |-> FirstIndex, calls |-> <<>>, err |-> FALSE])
  IN IF st.err THEN [arr |-> <<>>, err |-> TRUE, calls |-> st.calls]
     ELSE IF st.last # <<>>
     THEN LET r == parseArticle(st.last, st.lines)
              called == Append(st.calls, [header |-> st.last, lines |-> st.lines])
          IN IF r.err THEN [arr |-> <<>>, err |-> TRUE, calls |-> called]
             ELSE [arr   |-> reverse(Append(st.res, [r.a EXCEPT !.Index = st.index])),
                   err   |-> FALSE,
                   calls |-> called]
     ELSE [arr |-> reverse(st.res), err |-> FALSE, calls |-> st.calls]

----------------------------------------------------------------------------
(* the page templates and their execution                                  *)

\* homeTempl: the text between its actions {{range .}} {{.Link}} {{.Header}} {{end}}
homeTempl0 ==
  <<
    "\n", "<", "h", "t", "m", "l", ">", "\n", "<", "h", "e", "a", "d", ">", "\n", "\t", "<",
    "t", "i", "t", "l", "e", ">", "S", "h", "e", "k", "i", " ", "a", "r", "t", "i", "c", "l",
    "e", "s", " ", "o", "f", " ", "i", "n", "t", "e", "r", "e", "s", "t", "<", "/", "t", "i",
    "t", "l", "e", ">", "\n", "<", "/", "h", "e", "a", "d", ">", "\n", "<", "b", "o", "d", "y",
    ">", "\n", "\t", "<", "h", "1", ">", "A", "r", "t", "i", "c", "l", "e", "s", " ", "o", "f",
    " ", "i", "n", "t", "e", "r", "e", "s", "t", "<", "/", "h", "1", ">", "\n", "\t"
  >>

homeTempl1 ==
  <<
    "\n", "\t", "\t", "<", "p", ">", "\n", "\t", "\t", "\t", "<", "a", " ", "h", "r", "e", "f",
    "=", "\""
  >>

homeTempl2 ==
  <<
    "\"", ">"
  >>

homeTempl3 ==
  <<
    "<", "/", "a", ">", "\n", "\t", "\t", "<", "/", "p", ">", "\n", "\t"
  >>

homeTempl4 ==
  <<
    "\n", "<", "/", "b", "o", "d", "y", ">", "\n", "<", "/", "h", "t", "m", "l", ">"
  >>

\* pageTempl: the text between its actions {{.Content}} {{.StringDate}} {{range .Tags}} {{.}} {{.}} {{end}}
pageTempl0 ==
  <<
    "\n", "<", "h", "t", "m", "l", ">", "\n", " ", " ", "<", "h", "e", "a", "d", ">", "\n",
    "\t", " ", " ", "<", "t", "i", "t", "l", "e", ">", "S", "h", "e", "k", "i", " ", "a", "r",
    "t", "i", "c", "l", "e", "s", " ", "o", "f", " ", "i", "n", "t", "e", "r", "e", "s", "t",
    "<", "/", "t", "i", "t", "l", "e", ">", "\n", "\t", "<", "/", "h", "e", "a", "d", ">",
    "\n", "\t", "<", "b", "o", "d", "y", ">", "\n", " ", " ", " ", " ", "<", "p", ">", "\n",
    "\t", " ", " "
  >>

pageTempl1 ==
  <<
    "\n", "\t", "\t", "<", "/", "p", ">", "\n", "\t", "\t", "<", "p", ">", "D", "a", "t", "e",
    ":", " "
  >>

pageTempl2 ==
  <<
    "<", "/", "p", ">", "\n", "\t", "\t", "<", "p", ">", "\n", "\t", "\t"
  >>

pageTempl3 ==
  <<
    "\n", "\t", "\t", " ", " ", "<", "a", " ", "h", "r", "e", "f", "=", "\"", "t", "a", "g", "/"
  >>

pageTempl4 ==
  <<
    ".", "h", "t", "m", "l", "\"", ">"
  >>

pageTempl5 ==
  <<
    "<", "/", "a", ">", "\n", "\t", "\t"
  >>

pageTempl6 ==
  <<
    "\n", "\t", "\t", "<", "/", "p", ">", "\n", "\t", "<", "/", "b", "o", "d", "y", ">", "\n",
    "<", "/", "h", "t", "m", "l", ">", "\n"
  >>

\* tagTempl: the text between its actions {{.Tag}} {{range .Articles}} {{.Index}} {{.Header}} {{end}}
tagTempl0 ==
  <<
    "\n", "<", "h", "t", "m", "l", ">", "\n", "<", "h", "e", "a", "d", ">", "\n", "\t", "<",
    "t", "i", "t", "l", "e", ">", "S", "h", "e", "k", "i", " ", "a", "r", "t", "i", "c", "l",
    "e", "s", " ", "o", "f", " ", "i", "n", "t", "e", "r", "e", "s", "t", "<", "/", "t", "i",
    "t", "l", "e", ">", "\n", "<", "/", "h", "e", "a", "d", ">", "\n", "<", "b", "o", "d", "y",
    ">", "\n", "<", "h", "1", ">", "T", "a", "g", ":", " "
  >>

tagTempl1 ==
  <<
    "<", "/", "h", "1", ">", "\n", "\t"
  >>

tagTempl2 ==
  <<
    "\n", "\t", "\t", "<", "p", ">", "\n", "\t", "\t", "\t", "<", "a", " ", "h", "r", "e", "f",
    "=", "\"", "/"
  >>

tagTempl3 ==
  <<
    ".", "h", "t", "m", "l", "\"", ">"
  >>

tagTempl4 ==
  <<
    "<", "/", "a", ">", "\n", "\t", "\t", "<", "/", "p", ">", "\n", "\t"
  >>

tagTempl5 ==
  <<
    "\n", "<", "/", "b", "o", "d", "y", ">", "\n", "<", "/", "h", "t", "m", "l", ">"
  >>

\* html/template's escaper for text: & ' + < > and the double quote are replaced
EscapeChar(c) ==
  IF      c = "&"  THEN <<"&", "a", "m", "p", ";">>
  ELSE IF c = "'"  THEN <<"&", "#", "3", "9", ";">>
  ELSE IF c = "+"  THEN <<"&", "#", "4", "3", ";">>
  ELSE IF c = "<"  THEN <<"&", "l", "t", ";">>
  ELSE IF c = ">"  THEN <<"&", "g", "t", ";">>
  ELSE IF c = "\"" THEN <<"&", "#", "3", "4", ";">>
  ELSE <<c>>

RECURSIVE HTMLEscape(_)
HTMLEscape(s) == IF s = <<>> THEN <<>> ELSE EscapeChar(Head(s)) \o HTMLEscape(Tail(s))

\* html/template's escaper inside an href: a space becomes %20, the characters of
\* the text escaper are replaced, letters, digits, "/" and "." pass
RECURSIVE URLEscape(_)
URLEscape(s) ==
  IF s = <<>> THEN <<>>
  ELSE (IF Head(s) = " " THEN <<"%", "2", "0">> ELSE EscapeChar(Head(s))) \o URLEscape(Tail(s))

HtmlExt == <<".", "h", "t", "m", "l">>

prepareForRender(articles) ==
  [i \in 1..Len(articles) |->
     [Header |-> articles[i].Header, Link |-> Itoa(articles[i].Index) \o HtmlExt]]

\* homeTempl executed on a list of renderArticle values
ExecuteHome(rs) ==
  homeTempl0
    \o Concat([i \in 1..Len(rs) |->
         homeTempl1 \o URLEscape(rs[i].Link) \o homeTempl2
           \o HTMLEscape(rs[i].Header) \o homeTempl3])
    \o homeTempl4

\* pageTempl executed on the pageArticle of an article
ExecutePage(article) ==
  pageTempl0 \o article.Content \o pageTempl1 \o HTMLEscape(FormatDate(article.Date))
    \o pageTempl2
    \o Concat([i \in 1..Len(article.Tags) |->
         pageTempl3 \o URLEscape(article.Tags[i]) \o pageTempl4
           \o HTMLEscape(article.Tags[i]) \o pageTempl5])
    \o pageTempl6

\* tagTempl executed on a tag and its articles
ExecuteTag(tag, articles) ==
  tagTempl0 \o HTMLEscape(tag) \o tagTempl1
    \o Concat([i \in 1..Len(articles) |->
         tagTempl2 \o Itoa(articles[i].Index) \o tagTempl3
           \o HTMLEscape(articles[i].Header) \o tagTempl4])
    \o tagTempl5

IndexName == <<"i", "n", "d", "e", "x", ".", "h", "t", "m", "l">>

TagDirName == <<"t", "a", "g">>

\* paths are written relative to the base directory
indexFile == PathJoin(<<IndexName>>)

articleFile(index) == PathJoin(<<Itoa(index) \o HtmlExt>>)

tagFile(tag) == PathJoin(<<TagDirName, tag \o HtmlExt>>)

\* the same write with O_TRUNC: nothing of the old file stays
WriteTruncated(old, new) == new

\* the bytes of a file after new is written at offset 0 of a file opened with
\* O_RDWR|O_CREATE (no O_TRUNC): what lay beyond the new content stays
WriteAt0(old, new) ==
  IF Len(old) > Len(new) THEN new \o SubSeq(old, Len(new) + 1, Len(old)) ELSE new

----------------------------------------------------------------------------
(* generateTags: the tag grouping                                          *)

\* tagMap after the loops of generateTags: for every tag, the articles carrying
\* it, in the order of articles, once per occurrence of the tag in their lists
BuildTagMap(articles) ==
  LET keys == UNION {Chars(articles[i].Tags) : i \in 1..Len(articles)}
      hits(k, a) == SelectSeq(a.Tags, LAMBDA t : t = k)
  IN [k \in keys |->
        Concat([i \in 1..Len(articles) |->
                   [j \in 1..Len(hits(k, articles[i])) |-> articles[i]]])]

----------------------------------------------------------------------------
(* the output directory                                                    *)

Base == <<>>

EmptyFS == <<>>

\* os.OpenFile(path, O_RDWR|O_CREATE) succeeds when the directory of path exists
CanOpen(ds, path) == DirOf(path) \in ds

\* the files after content is written to path
WriteFile(files, path, content) ==
  [q \in DOMAIN files \cup {path} |->
     IF q = path
     THEN WriteAt0(IF path \in DOMAIN files THEN files[path] ELSE <<>>, content)
     ELSE files[q]]

\* a directory left behind by an earlier run, on the notes "# Bb", "Date: 2015/03/02",
\* "Tags: a,/a", "x"
StaleNotes == <<HeadingBb, DateOk, TagsSlash, TextX>>

StaleArticles == parseFile(StaleNotes).arr

StaleFS ==
  (indexFile :> ExecuteHome(prepareForRender(StaleArticles)))
    @@ (articleFile(0) :> ExecutePage(StaleArticles[1]))
    @@ (articleFile(1) :> ExecutePage(StaleArticles[2]))
    @@ (tagFile(<<"a">>) :>
          WriteAt0(ExecuteTag(<<"a">>, <<StaleArticles[2]>>),
                   ExecuteTag(<<"/", "a">>, <<StaleArticles[2]>>)))

----------------------------------------------------------------------------
(* the run: main calls Generate                                            *)

VARIABLES
  notes,     \* the lines of the notes file
  readable,  \* whether os.Open(notes path) succeeds
  fs,        \* the files below base: path -> bytes
  dirs,      \* the directories that exist: Base, tag
  fs0,       \* fs and dirs when the first run started
  dirs0,
  pc,        \* where Generate is
  arr,       \* arr of Generate: what parseFile returned
  calls,     \* the (header, lines) pairs parseFile handed to parseArticle
  i,         \* position of the range loop of generateArticlePages
  tagMap,    \* tagMap of generateTags
  todo,      \* keys of tagMap the range loop has not produced yet
  tagLog,    \* tag -> the page generateTagFile wrote for it
  w,         \* the last write: who, path, the file before, the content written
  err,       \* what Generate returned: "" (nil), "date", "io"; "fatal" for log.Fatal
  run,       \* 1 or 2: the run of the program in progress
  prev       \* fs at the end of the first run

vars == <<notes, readable, fs, dirs, fs0, dirs0, pc, arr, calls, i, tagMap, todo,
          tagLog, w, err, run, prev>>

NoWrite == [by |-> "none", path |-> <<>>, old |-> <<>>, new |-> <<>>]

Start ==
  /\ pc = "parseFile"
  /\ arr = <<>> /\ calls = <<>> /\ i = 1
  /\ tagMap = <<>> /\ todo = {} /\ tagLog = <<>>
  /\ w = NoWrite /\ err = ""

Init ==
  /\ \/ notes \in NotesFiles /\ readable = TRUE
     \/ notes = <<>> /\ readable = FALSE
  /\ \/ fs = EmptyFS /\ dirs \in {{}, {Base}}
     \/ fs = StaleFS /\ dirs = {Base, TagDirName}
  /\ fs0 = fs /\ dirs0 = dirs
  /\ run = 1 /\ prev = EmptyFS
  /\ Start

\* Generate, lines 207-210, with parseFile
ParseFile ==
  /\ pc = "parseFile"
  /\ IF ~readable
     THEN /\ pc' = "exit" /\ err' = "fatal"
          /\ UNCHANGED <<arr, calls>>
     ELSE LET r == parseFile(notes) IN
          /\ arr' = r.arr
          /\ calls' = r.calls
          /\ err' = IF r.err THEN "date" ELSE ""
          /\ pc' = IF r.err THEN "done" ELSE "generateIndex"
  /\ UNCHANGED <<notes, readable, fs, dirs, fs0, dirs0, i, tagMap, todo, tagLog, w, run, prev>>

GenerateIndex ==
  /\ pc = "generateIndex"
  /\ IF CanOpen(dirs, indexFile)
     THEN LET page == ExecuteHome(prepareForRender(arr)) IN
          /\ w' = [by |-> "generateIndex", path |-> indexFile,
                   old |-> IF indexFile \in DOMAIN fs THEN fs[indexFile] ELSE <<>>,
                   new |-> page]
          /\ fs' = WriteFile(fs, indexFile, page)
          /\ pc' = IF Len(arr) = 0 THEN "generateTags" ELSE "generateArticlePages"
          /\ err' = err
     ELSE /\ pc' = "done" /\ err' = "io"
          /\ UNCHANGED <<fs, w>>
  /\ i' = 1
  /\ UNCHANGED <<notes, readable, dirs, fs0, dirs0, arr, calls, tagMap, todo, tagLog, run, prev>>

\* one iteration of the loop of generateArticlePages
GenerateArticlePage ==
  /\ pc = "generateArticlePages"
  /\ i <= Len(arr)
  /\ LET path == articleFile(arr[i].Index)
         page == ExecutePage(arr[i])
     IN IF CanOpen(dirs, path)
        THEN /\ w' = [by |-> "generateArticlePage", path |-> path,
                      old |-> IF path \in DOMAIN fs THEN fs[path] ELSE <<>>,
                      new |-> page]
             /\ fs' = WriteFile(fs, path, page)
             /\ i' = i + 1
             /\ pc' = IF i = Len(arr) THEN "generateTags" ELSE pc
             /\ err' = err
        ELSE /\ pc' = "done" /\ err' = "io"
             /\ UNCHANGED <<fs, w, i>>
  /\ UNCHANGED <<notes, readable, dirs, fs0, dirs0, arr, calls, tagMap, todo, tagLog, run, prev>>

\* generateTags up to its range loop: the tag directory, tagMap, the open of index.html
GenerateTags ==
  /\ pc = "generateTags"
  /\ IF TagDirName \notin dirs /\ DirOf(TagDirName) \notin dirs
     THEN /\ pc' = "done" /\ err' = "io"
          /\ UNCHANGED <<fs, dirs, tagMap, todo>>
     ELSE /\ dirs' = dirs \cup {TagDirName}
          /\ tagMap' = BuildTagMap(arr)
          /\ IF CanOpen(dirs, indexFile)
             THEN /\ fs' = IF indexFile \in DOMAIN fs THEN fs
                           ELSE WriteFile(fs, indexFile, <<>>)
                  /\ todo' = DOMAIN tagMap'
                  /\ pc' = IF todo' = {} THEN "done" ELSE "range"
                  /\ err' = err
             ELSE /\ pc' = "done" /\ err' = "io"
                  /\ UNCHANGED <<fs, todo>>
  /\ UNCHANGED <<notes, readable, fs0, dirs0, arr, calls, i, tagLog, w, run, prev>>

\* one iteration of the range over tagMap, in whatever order the map yields its keys
GenerateTagFile ==
  /\ pc = "range"
  /\ \E k \in todo :
       LET path == tagFile(k)
           page == ExecuteTag(k, tagMap[k])
       IN IF CanOpen(dirs, path)
          THEN /\ w' = [by |-> "generateTagFile", path |-> path,
                        old |-> IF path \in DOMAIN fs THEN fs[path] ELSE <<>>,
                        new |-> page]
               /\ fs' = WriteFile(fs, path, page)
               /\ tagLog' = [t \in DOMAIN tagLog \cup {k} |->
                               IF t = k THEN page ELSE tagLog[t]]
               /\ todo' = todo \ {k}
               /\ pc' = IF todo' = {} THEN "done" ELSE pc
               /\ err' = err
          ELSE /\ pc' = "done" /\ err' = "io"
               /\ UNCHANGED <<fs, w, tagLog, todo>>
  /\ UNCHANGED <<notes, readable, dirs, fs0, dirs0, arr, calls, i, tagMap, run, prev>>

\* main returns (or panics on err) and the process ends
Exit ==
  /\ pc = "done"
  /\ pc' = "exit"
  /\ UNCHANGED <<notes, readable, fs, dirs, fs0, dirs0, arr, calls, i, tagMap, todo,
                 tagLog, w, err, run, prev>>

\* the program is run a second time on the unchanged notes file, against the
\* output directory as it was before the first run
RunAgain ==
  /\ pc = "exit" /\ run = 1
  /\ run' = 2
  /\ prev' = fs
  /\ fs' = fs0 /\ dirs' = dirs0
  /\ pc' = "parseFile"
  /\ arr' = <<>> /\ calls' = <<>> /\ i' = 1
  /\ tagMap' = <<>> /\ todo' = {} /\ tagLog' = <<>>
  /\ w' = NoWrite /\ err' = ""
  /\ UNCHANGED <<notes, readable, fs0, dirs0>>

Next ==
  \/ ParseFile
  \/ GenerateIndex
  \/ GenerateArticlePage
  \/ GenerateTags
  \/ GenerateTagFile
  \/ Exit

Spec == Init /\ [][Next]_vars

NextTwice == Next \/ RunAgain

SpecTwice == Init /\ [][NextTwice]_vars

----------------------------------------------------------------------------
(* what the specification says of a notes file                             *)

IsHeading(line) == HasPrefix(line, HeadingPrefix)

HeadingLines(file) == {p \in 1..Len(file) : IsHeading(file[p])}

NumHeadings(file) == Cardinality(HeadingLines(file))

\* the position in file of its k-th heading line
HeadingPos(file, k) ==
  CHOOSE p \in HeadingLines(file) : Cardinality({q \in HeadingLines(file) : q < p}) = k - 1

\* the lines of the k-th record after its heading: up to the next heading or the end
RecordBody(file, k) ==
  SubSeq(file, HeadingPos(file, k) + 1,
         IF k = NumHeadings(file) THEN Len(file) ELSE HeadingPos(file, k + 1) - 1)

\* what follows the five characters of "Date:" or "Tags:" at the start of a line
AfterMark(line) == SubSeq(line, 6, Len(line))

\* the k-th record has a Date line and its (last) Date line holds a valid date
RecordDated(file, k) ==
  LET ds == SelectSeq(RecordBody(file, k), LAMBDA l : HasPrefix(l, DateLit)) IN
  ds # <<>> /\ TimeParse(TrimSpace(AfterMark(ds[Len(ds)]))).ok

WellFormed(file) == \A k \in 1..NumHeadings(file) : RecordDated(file, k)

\* the header of a heading line: the "# " marker and surrounding white space removed
HeaderText(line) == TrimSpace(SubSeq(line, 3, Len(line)))

\* the tags a Tags line stands for: the remainder after "Tags:", split on commas,
\* every piece stripped
TagsOfLine(line) ==
  LET pieces == Split(AfterMark(line), ",") IN
  [j \in 1..Len(pieces) |-> TrimSpace(pieces[j])]

HasTagsLine(lines) == \E j \in 1..Len(lines) : HasPrefix(lines[j], TagsLit)

\* parseFile has returned without error
Parsed == readable /\ pc # "parseFile" /\ err # "date"

\* Generate has returned nil
Succeeded == readable /\ pc \in {"done", "exit"} /\ err = ""

\* the article of the k-th record in arr: records are appended in file order and
\* the result is reversed
ArticleOf(k) == arr[Len(arr) + 1 - k]

Occurs(x, s) == \E j \in 0..(Len(s) - Len(x)) : SubSeq(s, j + 1, j + Len(x)) = x

\* the entry of an article on a tag page: its header linked to "/{index}.html"
TagEntry(a) ==
  tagTempl2 \o Itoa(a.Index) \o tagTempl3 \o HTMLEscape(a.Header) \o tagTempl4

Listed(a, page) == Occurs(TagEntry(a), page)

\* the files {k}.html of the output directory
ArticleFiles == {p \in DOMAIN fs : DirOf(p) = Base /\ p # indexFile}

AllTags(articles) == UNION {Chars(articles[p].Tags) : p \in 1..Len(articles)}

----------------------------------------------------------------------------
(* the claims                                                              *)

\* C1: for a notes file whose records all have a valid Date line, a successful run
\* against an empty output directory leaves exactly the article files 1.html ..
\* N.html, N the number of heading lines, and no other {k}.html.
C1_ArticlePagesAreHeadings ==
  (Succeeded /\ fs0 = EmptyFS /\ WellFormed(notes)) =>
    ArticleFiles = {articleFile(k) : k \in 1..NumHeadings(notes)}

\* C2: for a notes file with N heading lines and valid dates, parseFile returns
\* exactly N articles, the file order reversed, and the index page written by
\* generateIndex has one entry per article in that order, header linked to
\* "{index}.html".
C2_ReversedAndIndexed ==
  (Parsed /\ WellFormed(notes)) =>
    LET N == NumHeadings(notes)
        entries == [p \in 1..N |->
                      [Header |-> HeaderText(notes[HeadingPos(notes, N + 1 - p)]),
                       Link   |-> Itoa(N + 1 - p) \o HtmlExt]]
    IN /\ Len(arr) = N
       /\ \A p \in 1..N : arr[p].Header = entries[p].Header
       /\ (w.by = "generateIndex" => w.new = ExecuteHome(entries))

\* C3: after a successful parse the record of the k-th heading line carries
\* Index = k and no other element of the returned sequence does; the record of the
\* first heading line has Index 1 and is the last element returned.
C3_IndexFollowsFileOrder ==
  Parsed =>
    LET N == NumHeadings(notes) IN
    /\ Len(arr) >= N
    /\ \A k \in 1..N :
         /\ \E p \in 1..Len(arr) :
              /\ arr[p].Index = k
              /\ arr[p].Header = HeaderText(notes[HeadingPos(notes, k)])
         /\ Cardinality({p \in 1..Len(arr) : arr[p].Index = k}) = 1
    /\ (N >= 1 =>
          /\ arr[Len(arr)].Index = 1
          /\ arr[Len(arr)].Header = HeaderText(notes[HeadingPos(notes, 1)]))

\* C3 witness: two records with different headers have been parsed and the one
\* first in the file is last in arr with Index 1, the other carries Index 2.
C3_Witness ==
  /\ Parsed /\ pc = "generateIndex"
  /\ NumHeadings(notes) = 2
  /\ notes[HeadingPos(notes, 1)] = HeadingA
  /\ notes[HeadingPos(notes, 2)] = HeadingBb
  /\ arr[Len(arr)].Header = <<"A">> /\ arr[Len(arr)].Index = 1
  /\ arr[Len(arr) - 1].Header = <<"B", "b">> /\ arr[Len(arr) - 1].Index = 2

\* C4: if some record has no Date line, or a Date line that is no valid date,
\* Generate returns the date error and the output directory is as it was.
C4_BadDateAborts ==
  (readable /\ pc # "parseFile" /\ ~WellFormed(notes)) =>
    (err = "date" /\ fs = fs0 /\ dirs = dirs0 /\ w = NoWrite)

\* The page generateTagFile writes for a tag is right: pages are written for
\* exactly the tags that occur, and the page written for t lists an article if and
\* only if the article carries t.
TagPagesAsWritten ==
  Succeeded =>
    /\ DOMAIN tagLog = AllTags(arr)
    /\ \A t \in DOMAIN tagLog :
         \A p \in 1..Len(arr) : Listed(arr[p], tagLog[t]) <=> t \in Chars(arr[p].Tags)

\* C5: after a successful run (here: against an empty output directory) the files
\* below tag/ are exactly tag/{t}.html for the tags t that occur in some article's
\* tag list, and tag/{t}.html lists an article if and only if t is in the article's
\* tag list.
C5_TagPages ==
  (Succeeded /\ fs0 = EmptyFS) =>
    /\ {f \in DOMAIN fs : DirOf(f) = TagDirName} = {tagFile(t) : t \in AllTags(arr)}
    /\ \A t \in AllTags(arr) :
         \A p \in 1..Len(arr) :
           Listed(arr[p], fs[tagFile(t)]) <=> t \in Chars(arr[p].Tags)

\* C6: a record with a valid Date line and no Tags line becomes an article whose
\* tag list is the one empty string, and a successful run writes tag/.html with a
\* listing that contains the article.
C6_NoTagsLineIsEmptyTag ==
  (Parsed /\ WellFormed(notes)) =>
    \A k \in 1..NumHeadings(notes) :
      ~HasTagsLine(RecordBody(notes, k)) =>
        /\ Len(arr) >= k
        /\ ArticleOf(k).Tags = << <<>> >>
        /\ Succeeded => /\ <<>> \in DOMAIN tagLog
                        /\ Listed(ArticleOf(k), tagLog[<<>>])
                        /\ tagFile(<<>>) \in DOMAIN fs

\* C7: two runs on the same notes file, each against an empty output directory,
\* leave the same files with the same bytes, whatever order the range over tagMap
\* takes.
C7_Deterministic ==
  (run = 2 /\ pc = "exit" /\ fs0 = EmptyFS) => fs = prev

\* C8: a write of m bytes to a file of n bytes leaves, when n > m, a file of n
\* bytes that starts with the new content and keeps bytes m+1..n of the old file;
\* when n <= m the file is the new content.
C8_NeverTruncated ==
  w.by # "none" =>
    LET n == Len(w.old)
        m == Len(w.new)
        f == fs[w.path]
    IN IF n > m
       THEN /\ Len(f) = n
            /\ \A j \in 1..m : f[j] = w.new[j]
            /\ \A j \in (m + 1)..n : f[j] = w.old[j]
       ELSE f = w.new

\* C8 witness: generateTagFile has just written a page shorter than the file it
\* found, and index.html and 1.html still end in bytes of the earlier run.
C8_Witness ==
  /\ Succeeded /\ fs0 = StaleFS
  /\ w.by = "generateTagFile" /\ Len(w.old) > Len(w.new)
  /\ fs[w.path] # w.new
  /\ Len(fs[indexFile]) > Len(ExecuteHome(prepareForRender(arr)))
  /\ Len(arr) = 2 /\ Len(fs[articleFile(1)]) > Len(ExecutePage(arr[2]))

\* C9: the lines handed to parseArticle for a record are the lines between its
\* heading and the next heading or the end of the file, for the first record too.
C9_RecordIsHeadingToHeading ==
  (readable /\ pc # "parseFile") =>
    \A k \in 1..Len(calls) :
      /\ calls[k].header = notes[HeadingPos(notes, k)]
      /\ calls[k].lines = RecordBody(notes, k)

\* C10: the tag list of an article with a Tags line is the line without its first
\* five characters, split on commas, each piece stripped, in that order.
C10_TagsAfterPrefix ==
  Parsed =>
    \A k \in 1..Len(calls) :
      HasTagsLine(calls[k].lines) =>
        ArticleOf(k).Tags = TagsOfLine(LastWith(calls[k].lines, TagsLit))

====
